---- MODULE Spec2Model ----
(***************************************************************************)
(* Model of the full game variant of the useParticleAnimation hook         *)
(* (src/src/hooks/useParticleAnimation.ts, lines 324-934): the GameState   *)
(* held in React state, the particle population held in particlesRef, the  *)
(* localStorage item 'particleGame', and the handlers that change them     *)
(* (mount effect, animation frame, collectTarget, purchaseUpgrade, resize, *)
(* the 30 s save interval, the mount effect's cleanup).                    *)
(*                                                                         *)
(* Closures.  Every render of the hook creates new initParticles,          *)
(* updateParticles and saveGameState functions that read the gameState of  *)
(* THAT render.  The effects with an empty dependency list (mount effect,  *)
(* animation effect) keep the functions of the first render, whose         *)
(* gameState is the useState initial value; the save interval effect and   *)
(* the purchaseUpgrade handed to the shell use the functions of the latest *)
(* render.  A render follows every handler that changed the state, so      *)
(* between handlers the latest render's gameState is the variable          *)
(* gameState, and inside a handler it is the unprimed (pre-handler) value. *)
(*                                                                         *)
(* Geometry.  Which particles are within 30 units of the pointer or of a    *)
(* collector in a frame is an input of the frame.  Position and velocity   *)
(* are followed for one tracked particle (probe) on an integer grid of     *)
(* 1/1000 pixel.  Indices are 1-based here, 0-based in the source.         *)
(***************************************************************************)
EXTENDS Integers, Sequences, FiniteSets, TLC

VARIABLES
    phase,      \* "unmounted" | "mounted" | "torndown" | "unloaded" | "crashed"
    gameState,  \* the React state gameState (all queued updaters applied)
    particles,  \* particlesRef.current
    storage,    \* localStorage item 'particleGame'
    clock,      \* Date.now() in units of TickMs
    timerStart, \* clock value at which the current save interval was set
    mountedAt,  \* clock value at the first render of this instance
    intervalSaved, \* the save interval has fired in this instance
    storageDenied, \* every access to localStorage throws (storage disabled)
    maxParticles,  \* the maxParticles option the shell passes to the hook
    showScore,     \* UI state showScore
    showHint,      \* UI state showHint
    interactionAge, \* 0: interactionStartTimeRef is 0; else the time since it
                   \* was set: 1 at most 1000 ms, 2 at most 2000 ms, 3 more
    animating,     \* a frame callback is scheduled (requestRef)
    contextAvailable, \* canvas.getContext('2d') returns a context
    uiTakeover, \* UI state uiTakeover
    probe,      \* the kinematics of one tracked particle and the pointer
                \* samples (idx = 0: no particle is tracked)
    last        \* the last handler that ran: [op, n]

vars == <<phase, gameState, particles, storage, clock, timerStart, mountedAt, intervalSaved,
          storageDenied, maxParticles, showScore, showHint, interactionAge, animating,
          contextAvailable, last, probe, uiTakeover>>

\* ---------------------------------------------------------------- bounds
BaseMax == 4
MaxCost == 1
MaxScore == 2
MaxPopulation == 16
MaxClock == 2
MaxLevel == 4
ShopBudget == 25
CanvasPx == 4
SimpleMax == 24

\* ------------------------------------------------------ program constants
BurstCount == 10
InitialTargets == 3
SaveIntervalMs == 30000
ShellMaxParticles == 60
TakeoverCurrency == 100

\* The clock advances in steps of half a save interval.
TickMs == SaveIntervalMs \div 2

SaveTicks == SaveIntervalMs \div TickMs

Max(a, b) == IF a >= b THEN a ELSE b
Min(a, b) == IF a <= b THEN a ELSE b

UpgradeIds ==
    {"maxParticles", "particleSize", "interactionRadius", "targetSpawnRate",
     "autoCollectors", "particleSpeed", "autonomyLevel"}

DefaultUpgrades ==
    [maxParticles |-> 1, particleSize |-> 1, interactionRadius |-> 1,
     targetSpawnRate |-> 1, autoCollectors |-> 0, particleSpeed |-> 1,
     autonomyLevel |-> 0]

\* useState initial value; lastUpdate is Date.now() of the render.
DefaultGameState(now) ==
    [currency |-> 0, score |-> 0, level |-> 1, upgrades |-> DefaultUpgrades,
     lastUpdate |-> now, gameStarted |-> FALSE, highestCurrency |-> 0]

\* The gameState seen by the functions of the first render.
FirstRenderState == DefaultGameState(mountedAt)

\* ------------------------------------------------------------ persistence
\* JSON text is modelled as the sequence of its members, <<key, value>>, in
\* the order JSON.stringify emits them (insertion order of the object); a
\* nested object is a nested sequence of members.
UpgradeKeyOrder ==
    <<"maxParticles", "particleSize", "interactionRadius", "targetSpawnRate",
      "autoCollectors", "particleSpeed", "autonomyLevel">>

StringifyUpgrades(up) == [k \in 1..Len(UpgradeKeyOrder) |-> <<UpgradeKeyOrder[k], up[UpgradeKeyOrder[k]]>>]

Stringify(gs) ==
    << <<"currency", gs.currency>>, <<"score", gs.score>>, <<"level", gs.level>>,
       <<"upgrades", StringifyUpgrades(gs.upgrades)>>,
       <<"lastUpdate", gs.lastUpdate>>, <<"gameStarted", gs.gameStarted>>,
       <<"highestCurrency", gs.highestCurrency>> >>

\* A text cut off after a member name: JSON.parse throws on it.
CorruptText == << <<"currency", 1>>, <<"score">> >>

Parseable(text) == \A k \in 1..Len(text) : Len(text[k]) = 2

Member(text, key) == text[CHOOSE k \in 1..Len(text) : text[k][1] = key][2]

ParseUpgrades(text) == [u \in UpgradeIds |-> Member(text, u)]

Parse(text) ==
    [currency |-> Member(text, "currency"), score |-> Member(text, "score"),
     level |-> Member(text, "level"),
     upgrades |-> ParseUpgrades(Member(text, "upgrades")),
     lastUpdate |-> Member(text, "lastUpdate"),
     gameStarted |-> Member(text, "gameStarted"),
     highestCurrency |-> Member(text, "highestCurrency")]

NoItem == [present |-> FALSE, text |-> <<>>]
Item(text) == [present |-> TRUE, text |-> text]

\* A save that writes the state a stale closure holds instead of the state
\* it is given.
SaveGameStateStale(gs) == Item(Stringify(DefaultGameState(gs.lastUpdate)))

\* saveGameState of a render whose gameState is gs.
SaveGameState(gs) == Item(Stringify(gs))

\* Variant of loadGameState that keeps the lastUpdate of the fresh state.
LoadGameStateMerged(gs, item) ==
    IF item.present /\ Parseable(item.text)
    THEN [Parse(item.text) EXCEPT !.lastUpdate = gs.lastUpdate] ELSE gs

\* loadGameState: the gameState after it, given the gameState before it.
LoadGameState(gs, item) ==
    IF item.present /\ Parseable(item.text) THEN Parse(item.text) ELSE gs

Loaded(item) == item.present /\ Parseable(item.text)

\* Variant of the loadGameState call without the catch.
LoadGameStateCallUncaught(gs, item, readFails) ==
    LET threw == readFails \/ (item.present /\ ~Parseable(item.text))
    IN [gameState |-> IF readFails THEN gs ELSE LoadGameState(gs, item),
        logged |-> FALSE, raised |-> threw]

\* A call of loadGameState: getItem throws when readFails, JSON.parse throws
\* on an unparseable text; the catch logs the error and returns.  raised
\* tells whether an exception leaves the function.
LoadGameStateCall(gs, item, readFails) ==
    LET threw == readFails \/ (item.present /\ ~Parseable(item.text))
    IN [gameState |-> IF readFails THEN gs ELSE LoadGameState(gs, item),
        logged |-> threw, raised |-> FALSE]

\* A call of saveGameState of a render whose gameState is gs: setItem throws
\* when writeFails; the catch logs the error and returns.
SaveGameStateCall(gs, store, writeFails) ==
    [storage |-> IF writeFails THEN store ELSE SaveGameState(gs),
     logged |-> writeFails, raised |-> FALSE]

\* A snapshot left by an earlier session: 2 collections, autoCollectors
\* bought at cost 1.
EarlierSnapshot ==
    [currency |-> 1, score |-> 2, level |-> 1,
     upgrades |-> [DefaultUpgrades EXCEPT !.autoCollectors = 1],
     lastUpdate |-> -1, gameStarted |-> TRUE, highestCurrency |-> 2]

InitialStorage == {NoItem, Item(CorruptText), Item(Stringify(EarlierSnapshot))}

\* ------------------------------------------------------------- population
\* Variant of actualMaxParticles that ignores the maxParticles level.
ActualMaxParticlesNoBonus(up) == maxParticles

\* Math.floor(maxParticles * (1 + upgrades.maxParticles * 0.2)); the integer
\* form agrees with the double arithmetic for every base below 15 and level
\* below 18, and for base 60 and every level below 36.
ActualMaxParticles(up) == (maxParticles * (5 + up.maxParticles)) \div 5

\* Variant of the behaviour assignment that tests the avoider rule first.
BehaviorAvoiderFirst(idx, up) ==
    IF idx < up.autoCollectors THEN "collector"
    ELSE IF idx % 15 = 0 /\ up.autonomyLevel > 3 THEN "avoider"
    ELSE IF idx % 10 = 0 /\ up.autonomyLevel > 2 THEN "seeker"
    ELSE "normal"

Behavior(idx, up) ==
    IF idx < up.autoCollectors THEN "collector"
    ELSE IF idx % 10 = 0 /\ up.autonomyLevel > 2 THEN "seeker"
    ELSE IF idx % 15 = 0 /\ up.autonomyLevel > 3 THEN "avoider"
    ELSE "normal"

\* Variant of initParticles that marks one particle less as a target and one
\* more as a collector.
InitParticlesShifted(up) ==
    [i \in 1..ActualMaxParticles(up) |->
        [isTarget |-> i < InitialTargets,
         isCollector |-> (i - 1) <= up.autoCollectors,
         behavior |-> Behavior(i - 1, up),
         autonomy |-> Min(4, up.autonomyLevel),
         burst |-> FALSE]]

\* autonomy is baseAutonomy * (0.5 + random * 0.5); kept here is
\* baseAutonomy = min(0.8, autonomyLevel * 0.2) in units of 0.2.
InitParticles(up) ==
    [i \in 1..ActualMaxParticles(up) |->
        [isTarget |-> (i - 1) < InitialTargets,
         isCollector |-> (i - 1) < up.autoCollectors,
         behavior |-> Behavior(i - 1, up),
         autonomy |-> Min(4, up.autonomyLevel),
         burst |-> FALSE]]

BurstParticle ==
    [isTarget |-> FALSE, isCollector |-> FALSE, behavior |-> "normal",
     autonomy |-> 0, burst |-> TRUE]

TargetIdx(ps) == {i \in 1..Len(ps) : ps[i].isTarget}
CollectorIdx(ps) == {i \in 1..Len(ps) : ps[i].isCollector}
BurstIdx(ps) == {i \in 1..Len(ps) : ps[i].burst}

\* ------------------------------------------------------------- collection
\* Variant of collectTarget without the high-water mark update.
CollectTargetNoHighWater(st, index) ==
    IF ~st.particles[index].isTarget THEN st
    ELSE [particles |->
              [st.particles EXCEPT ![index].isTarget = FALSE]
              \o [j \in 1..BurstCount |-> BurstParticle],
          gameState |->
              [st.gameState EXCEPT !.currency = @ + 1, !.score = @ + 1]]

\* Variant of collectTarget without the "still a target" guard.
CollectTargetUnguarded(st, index) ==
    [particles |->
         [st.particles EXCEPT ![index].isTarget = FALSE]
         \o [j \in 1..BurstCount |-> BurstParticle],
     gameState |->
         [st.gameState EXCEPT
             !.currency = @ + 1,
             !.score = @ + 1,
             !.highestCurrency = Max(@, st.gameState.currency + 1)]]

\* Variant of collectTarget that sets highestCurrency to the new currency.
CollectTargetResetsHighWater(st, index) ==
    IF ~st.particles[index].isTarget THEN st
    ELSE [particles |->
              [st.particles EXCEPT ![index].isTarget = FALSE]
              \o [j \in 1..BurstCount |-> BurstParticle],
          gameState |->
              [st.gameState EXCEPT
                  !.currency = @ + 1,
                  !.score = @ + 1,
                  !.highestCurrency = st.gameState.currency + 1]]

\* collectTarget(index) on st = [particles, gameState].
CollectTarget(st, index) ==
    IF ~st.particles[index].isTarget THEN st
    ELSE [particles |->
              [st.particles EXCEPT ![index].isTarget = FALSE]
              \o [j \in 1..BurstCount |-> BurstParticle],
          gameState |->
              [st.gameState EXCEPT
                  !.currency = @ + 1,
                  !.score = @ + 1,
                  !.highestCurrency = Max(@, st.gameState.currency + 1)]]

\* ---------------------------------------------------------------- purchase
\* Variant of the updater without the affordability check.
PurchaseUpdaterUnchecked(prev, upgradeType, cost) ==
    [prev EXCEPT !.currency = @ - cost, !.upgrades[upgradeType] = @ + 1]

\* Variant of the updater that also rejects a purchase the player can
\* exactly afford.
PurchaseUpdaterStrict(prev, upgradeType, cost) ==
    IF prev.currency <= cost THEN prev
    ELSE [prev EXCEPT !.currency = @ - cost, !.upgrades[upgradeType] = @ + 1]

\* The updater passed to setGameState by purchaseUpgrade.
PurchaseUpdater(prev, upgradeType, cost) ==
    IF prev.currency < cost THEN prev
    ELSE [prev EXCEPT !.currency = @ - cost, !.upgrades[upgradeType] = @ + 1]

\* purchaseUpgrade of a render whose gameState is st.gameState: the updater
\* is applied to the state, then that render's initParticles runs.
PurchaseUpgrade(st, upgradeType, cost) ==
    [gameState |-> PurchaseUpdater(st.gameState, upgradeType, cost),
     particles |-> InitParticles(st.gameState.upgrades)]

Now == [particles |-> particles, gameState |-> gameState]

\* Variant of the uiTakeover effect in which the flag follows currency.
UiTakeoverFollowsCurrency(taken, gs) == gs.currency > TakeoverCurrency

\* The uiTakeover effect, run after a render with gameState gs: the flag is
\* set once currency is above the threshold and never cleared.
UiTakeoverEffect(taken, gs) == taken \/ gs.currency > TakeoverCurrency

\* ------------------------------------------------------------- kinematics
\* Positions and velocities are integers in units of 1/1000 pixel.
Unit == 1000
CanvasWidth == CanvasPx * Unit
CanvasHeight == (CanvasPx - 1) * Unit

\* The options interactionRadius (pixels) and targetSpawnRate (per mille).
InteractionRadius == 150
TargetSpawnRatePerMille == 10

\* interactionRadius * (1 + level * 0.1), in pixels.
ActualInteractionRadius(up) == (InteractionRadius * (10 + up.interactionRadius)) \div 10

\* targetSpawnRate * (1 + level * 0.2), per mille.
AdjustedSpawnRate(up) == (TargetSpawnRatePerMille * (5 + up.targetSpawnRate)) \div 5

\* The pointer a frame uses: the canvas-relative sample when its x is not 0,
\* the sample of the shell otherwise.
MousePos(scaled, external) == IF scaled.x # 0 THEN scaled ELSE external

\* The autonomous steering of particle p in a frame: nothing unless the
\* particle has autonomy and its direction-change delay has elapsed
\* (cadenceDue); then by behaviour.
Steering(p, cadenceDue, targetsExist) ==
    IF ~(p.autonomy > 0 /\ cadenceDue) THEN "none"
    ELSE IF p.behavior = "seeker" THEN (IF targetsExist THEN "target" ELSE "none")
    ELSE IF p.behavior = "avoider" THEN "random"
    ELSE IF p.behavior = "collector" THEN (IF targetsExist THEN "target" ELSE "wander")
    ELSE "random"

\* v *= 0.98 and v *= -0.7 (exact on the velocities of the model, which are
\* multiples of 500 before friction).
Friction(v) == (v * 49) \div 50
Bounce(v) == (v * (-7)) \div 10

\* Variant of the containment that wraps around the canvas.
ContainWrap(pos, vel, size) ==
    IF pos < 0 THEN [pos |-> size, vel |-> vel]
    ELSE IF pos > size THEN [pos |-> 0, vel |-> vel]
    ELSE [pos |-> pos, vel |-> vel]

\* Containment on one axis: a particle past an edge is put on the edge and
\* its velocity on that axis is multiplied by -0.7.
Contain(pos, vel, size) ==
    IF pos < 0 THEN [pos |-> 0, vel |-> Bounce(vel)]
    ELSE IF pos > size THEN [pos |-> size, vel |-> Bounce(vel)]
    ELSE [pos |-> pos, vel |-> vel]

\* Integration, friction and containment on one axis; nd is normalizedDelta.
MoveAxis(pos, vel, nd, size) == Contain(pos + vel * nd, Friction(vel), size)

\* The values tried for the inputs of a frame of the tracked particle.
PositionChoices(size) == {0, Unit, size}
VelocityChoices == {-3 * Unit, 0, 3 * Unit}
ImpulseChoices == {-Unit, 0, Unit}
DeltaChoices == 0..2
SampleChoices == {[x |-> a, y |-> b] : a \in {0, 2 * Unit}, b \in {0, 2 * Unit}}
ExternalSample == [x |-> 3 * Unit, y |-> 3 * Unit]

Kinematics(pr) == [x |-> pr.x, y |-> pr.y, vx |-> pr.vx, vy |-> pr.vy]

\* One frame for the tracked particle p.  dvx, dvy are the velocity changes
\* of steering and pointer repulsion together; up is the upgrade record
\* the running updateParticles reads.
ProbeStep(pr, p, up, cadenceDue, nd, dvx, dvy, targetsExist) ==
    LET ax == MoveAxis(pr.x, pr.vx + dvx, nd, CanvasWidth)
        ay == MoveAxis(pr.y, pr.vy + dvy, nd, CanvasHeight)
    IN  [pr EXCEPT !.frame = 1,
                   !.before = Kinematics(pr),
                   !.x = ax.pos, !.vx = ax.vel,
                   !.y = ay.pos, !.vy = ay.vel,
                   !.nd = nd, !.dvx = dvx, !.dvy = dvy,
                   !.mousePos = MousePos(pr.scaled, pr.external),
                   !.steer = Steering(p, cadenceDue, targetsExist),
                   !.radius = ActualInteractionRadius(up),
                   !.spawnRate = AdjustedSpawnRate(up)]

Origin == [x |-> 0, y |-> 0]

\* A particle at (x, y) with velocity (vx, vy), tracked from its next frame
\* on, and the two pointer samples.
Probe(idx, x, y, vx, vy, scaled, external) ==
    [frame |-> 0, idx |-> idx, x |-> x, y |-> y, vx |-> vx, vy |-> vy,
     scaled |-> scaled, external |-> external,
     before |-> [x |-> x, y |-> y, vx |-> vx, vy |-> vy],
     nd |-> 0, dvx |-> 0, dvy |-> 0, mousePos |-> Origin, steer |-> "none",
     radius |-> 0, spawnRate |-> 0]

NoProbe == Probe(0, 0, 0, 0, 0, Origin, Origin)

\* ---------------------------------------------------------------- the shop
BaseCosts ==
    [maxParticles |-> 5, particleSize |-> 10, interactionRadius |-> 8,
     targetSpawnRate |-> 15, autoCollectors |-> 25, particleSpeed |-> 12,
     autonomyLevel |-> 20]

\* scaleFactor (1.5, 1.8, 1.6, 1.7, 2.5, 1.9, 2.2) as fractions in lowest
\* terms.
ScaleNum ==
    [maxParticles |-> 3, particleSize |-> 9, interactionRadius |-> 8,
     targetSpawnRate |-> 17, autoCollectors |-> 5, particleSpeed |-> 19,
     autonomyLevel |-> 11]

ScaleDen ==
    [maxParticles |-> 2, particleSize |-> 5, interactionRadius |-> 5,
     targetSpawnRate |-> 10, autoCollectors |-> 2, particleSpeed |-> 10,
     autonomyLevel |-> 5]

\* Variant of getUpgradeCost without the scaling by level.
GetUpgradeCostFlat(upgradeType, currentLevel) == BaseCosts[upgradeType]

\* Math.floor(baseCost * Math.pow(factor, currentLevel)); the exact quotient
\* agrees with the double arithmetic for every level below 12.
GetUpgradeCost(upgradeType, currentLevel) ==
    (BaseCosts[upgradeType] * ScaleNum[upgradeType] ^ currentLevel)
        \div (ScaleDen[upgradeType] ^ currentLevel)

\* ------------------------------------------------------------------ actions
Init ==
    /\ phase = "unmounted"
    /\ gameState = DefaultGameState(0)
    /\ particles = <<>>
    /\ storageDenied \in BOOLEAN
    /\ maxParticles = BaseMax
    /\ showScore = FALSE
    /\ showHint = TRUE
    /\ interactionAge = 0
    /\ animating = FALSE
    /\ contextAvailable = TRUE
    /\ probe = NoProbe
    /\ uiTakeover = FALSE
    /\ storage \in (IF storageDenied THEN {NoItem} ELSE InitialStorage)
    /\ clock = 0
    /\ timerStart = 0
    /\ mountedAt = 0
    /\ intervalSaved = FALSE
    /\ last = [op |-> "none", n |-> 0]

\* First render and the effects that follow it: initParticles of the first
\* render, loadGameState, setInterval.
Mount ==
    /\ phase # "mounted"
    /\ mountedAt' = clock
    /\ particles' = InitParticles(DefaultGameState(clock).upgrades)
    /\ \E r \in {LoadGameStateCall(DefaultGameState(clock), storage, storageDenied)} :
        /\ gameState' = r.gameState
        /\ uiTakeover' = UiTakeoverEffect(FALSE, r.gameState)
        /\ phase' = IF r.raised THEN "crashed" ELSE "mounted"
        /\ last' = [op |-> "mount",
                    n |-> IF r.logged \/ r.raised THEN -1 ELSE IF Loaded(storage) THEN 1 ELSE 0]
    /\ timerStart' = clock
    /\ intervalSaved' = FALSE
    /\ showScore' = FALSE
    /\ showHint' = TRUE
    /\ interactionAge' = 0
    /\ animating' = TRUE
    /\ UNCHANGED <<probe, storage, clock, storageDenied, maxParticles, contextAvailable>>

PurchaseUpgradeAction(upgradeType, cost) ==
    /\ phase = "mounted"
    /\ \E r \in {PurchaseUpgrade(Now, upgradeType, cost)} :
        /\ gameState' = r.gameState
        /\ uiTakeover' = UiTakeoverEffect(uiTakeover, r.gameState)
        /\ particles' = r.particles
        /\ timerStart' = IF r.gameState # gameState THEN clock ELSE timerStart
        /\ last' = [op |-> "purchase", n |-> IF gameState.currency >= cost THEN 1 ELSE 0]
    /\ UNCHANGED <<probe, phase, storage, clock, mountedAt, intervalSaved, storageDenied, maxParticles,
                   showScore, showHint, interactionAge, animating, contextAvailable>>

\* Variant of the interaction-start detection in which the score display
\* follows the pointer: shown only while the pointer is over the canvas.
InteractionStartFollowsPointer(hud, interacting) ==
    LET age == IF hud.interactionAge = 0 THEN 1 ELSE hud.interactionAge
    IN IF ~interacting THEN [hud EXCEPT !.showScore = FALSE]
       ELSE [showScore |-> age >= 2,
             showHint |-> hud.showHint /\ age < 3,
             interactionAge |-> age]

\* Variant of the interaction-start detection in which the hint is hidden
\* after 1000 ms and the score shown after 2000 ms.
InteractionStartHintFirst(hud, interacting) ==
    LET age == IF hud.interactionAge = 0 THEN 1 ELSE hud.interactionAge
    IN IF ~interacting THEN hud
       ELSE [showScore |-> hud.showScore \/ age >= 3,
             showHint |-> hud.showHint /\ age < 2,
             interactionAge |-> age]

\* The interaction-start detection of updateParticles on
\* hud = [showScore, showHint, interactionAge]: the first non-zero pointer
\* sample sets interactionStartTimeRef; more than 1000 ms later the score is
\* shown, more than 2000 ms later the hint is hidden.
InteractionStart(hud, interacting) ==
    LET age == IF hud.interactionAge = 0 THEN 1 ELSE hud.interactionAge
    IN IF ~interacting THEN hud
       ELSE [showScore |-> hud.showScore \/ age >= 2,
             showHint |-> hud.showHint /\ age < 3,
             interactionAge |-> age]

Hud == [showScore |-> showScore, showHint |-> showHint, interactionAge |-> interactionAge]

\* Variant of the target replenishment without the test on the number of
\* targets.
ReplenishUncapped(ps, roll, randomIndex) ==
    IF roll /\ ~ps[randomIndex].isTarget /\ ~ps[randomIndex].isCollector
    THEN [ps EXCEPT ![randomIndex].isTarget = TRUE]
    ELSE ps

\* The target replenishment of updateParticles: roll is the outcome of
\* Math.random() < adjustedSpawnRate, randomIndex the index drawn.
Replenish(ps, roll, randomIndex) ==
    IF Cardinality(TargetIdx(ps)) < InitialTargets /\ roll
       /\ ~ps[randomIndex].isTarget /\ ~ps[randomIndex].isCollector
    THEN [ps EXCEPT ![randomIndex].isTarget = TRUE]
    ELSE ps

\* Variant of the collector scan without the break: every target within 30
\* units is collected.
RECURSIVE CollectorScanAll(_, _, _, _)
CollectorScanAll(st, i, near, j) ==
    IF j > Len(st.particles) THEN st
    ELSE IF st.particles[j].isTarget /\ (j = i \/ j \in near)
         THEN CollectorScanAll(CollectTarget(st, j), i, near, j + 1)
         ELSE CollectorScanAll(st, i, near, j + 1)

\* The scan of collector i: the first target in index order within 30 units
\* is collected.  near is the set of indices within 30 units of collector i;
\* the collector itself is at distance 0.
RECURSIVE CollectorScan(_, _, _, _)
CollectorScan(st, i, near, j) ==
    IF j > Len(st.particles) THEN st
    ELSE IF st.particles[j].isTarget /\ (j = i \/ j \in near) THEN CollectTarget(st, j)
    ELSE CollectorScan(st, i, near, j + 1)

\* Variant of the particle loop in which the pointer collects every target,
\* whatever its distance.
RECURSIVE ParticleLoopNoRange(_, _, _, _)
ParticleLoopNoRange(st, i, nearPtr, nearCol) ==
    IF i > Len(st.particles) THEN st
    ELSE LET p == st.particles[i]
             s1 == IF p.isCollector THEN CollectorScan(st, i, nearCol[i], 1) ELSE st
             s2 == IF s1.particles[i].isTarget THEN CollectTarget(s1, i) ELSE s1
         IN ParticleLoopNoRange(s2, i + 1, nearPtr, nearCol)

\* The particle loop of updateParticles from index i on.  nearPtr is the set
\* of indices within 30 units of the pointer, nearCol[c] the set within 30
\* units of collector c.  The loop bound is the current length, so particles
\* appended by a collection are visited in the same frame.
RECURSIVE ParticleLoop(_, _, _, _)
ParticleLoop(st, i, nearPtr, nearCol) ==
    IF i > Len(st.particles) THEN st
    ELSE LET p == st.particles[i]
             s1 == IF p.isCollector THEN CollectorScan(st, i, nearCol[i], 1) ELSE st
             s2 == IF s1.particles[i].isTarget /\ i \in nearPtr
                   THEN CollectTarget(s1, i) ELSE s1
         IN ParticleLoop(s2, i + 1, nearPtr, nearCol)

\* updateParticles of the first render (the animation effect never picks up
\* a later one): its gameState.gameStarted is the initial FALSE, so every
\* frame with a non-zero pointer sample queues the gameStarted updater.
UpdateParticles(st, interacting, roll, randomIndex, nearPtr, nearCol) ==
    LET started == IF interacting /\ ~FirstRenderState.gameStarted
                   THEN [st.gameState EXCEPT !.gameStarted = TRUE]
                   ELSE st.gameState
        spawned == Replenish(st.particles, roll, randomIndex)
    IN ParticleLoop([particles |-> spawned, gameState |-> started], 1, nearPtr, nearCol)

\* The values of Math.floor(Math.random() * particles.length) tried: the
\* initial targets, the particle after them and the last particle.
RandomIndexChoices(ps) == {i \in 1..Len(ps) : i <= InitialTargets + 1 \/ i = Len(ps)}

\* The sets of particles that may be in range in a frame: any set of targets
\* while the bounds of the model leave room for one more collection, none
\* once they do not.
NearChoices(ps, gs, tg) ==
    IF Len(ps) + BurstCount <= MaxPopulation /\ gs.score < MaxScore
    THEN SUBSET tg ELSE {{}}

\* animate: a frame that finds no drawing context returns before it
\* requests the next frame; any other frame runs updateParticles and
\* requests the next one.
Frame ==
    /\ phase = "mounted"
    /\ animating
    /\ IF ~contextAvailable
       THEN /\ animating' = FALSE
            /\ last' = [op |-> "skip", n |-> 0]
            /\ UNCHANGED <<uiTakeover, gameState, particles, timerStart, showScore, showHint, interactionAge>>
       ELSE
       \E interacting \in BOOLEAN, roll \in BOOLEAN :
       \E randomIndex \in (IF roll THEN RandomIndexChoices(particles) ELSE {1}) :
       \E near \in {NearChoices(particles, gameState, TargetIdx(Replenish(particles, roll, randomIndex)))} :
       \E nearPtr \in near :
       \E nearCol \in [CollectorIdx(particles) -> near] :
       \E r \in {UpdateParticles(Now, interacting, roll, randomIndex, nearPtr, nearCol)} :
       \E h \in {InteractionStart(Hud, interacting)} :
       LET n == r.gameState.score - gameState.score
       IN /\ r.gameState.score <= MaxScore
          /\ Len(r.particles) <= MaxPopulation
          /\ gameState' = r.gameState
          /\ uiTakeover' = UiTakeoverEffect(uiTakeover, r.gameState)
          /\ particles' = r.particles
          /\ timerStart' = IF interacting \/ n > 0 THEN clock ELSE timerStart
          /\ showScore' = h.showScore
          /\ showHint' = h.showHint
          /\ interactionAge' = h.interactionAge
          /\ animating' = TRUE
          /\ last' = [op |-> "frame", n |-> n]
    /\ UNCHANGED <<probe, phase, storage, clock, mountedAt, intervalSaved, storageDenied, maxParticles,
                   contextAvailable>>

\* A frame in which the tracked particle is followed: no target is within
\* 30 units of the pointer or of another particle, the replenishment roll
\* fails; the pointer is the one the two samples give.
MotionFrame ==
    /\ phase = "mounted"
    /\ animating
    /\ contextAvailable
    /\ probe.idx > 0
    /\ probe.frame = 0
    /\ \E cadenceDue \in BOOLEAN, nd \in DeltaChoices :
       \E dvx \in ImpulseChoices, dvy \in ImpulseChoices :
       LET mousePos == MousePos(probe.scaled, probe.external)
           interacting == mousePos.x # 0 /\ mousePos.y # 0
           r == UpdateParticles(Now, interacting, FALSE, 1, {},
                                [c \in CollectorIdx(particles) |-> {}])
           h == InteractionStart(Hud, interacting)
           n == r.gameState.score - gameState.score
       IN /\ probe' = ProbeStep(probe, particles[probe.idx], FirstRenderState.upgrades,
                                cadenceDue, nd, dvx, dvy, TargetIdx(particles) # {})
          /\ gameState' = r.gameState
          /\ uiTakeover' = UiTakeoverEffect(uiTakeover, r.gameState)
          /\ particles' = r.particles
          /\ timerStart' = IF interacting \/ n > 0 THEN clock ELSE timerStart
          /\ showScore' = h.showScore
          /\ showHint' = h.showHint
          /\ interactionAge' = h.interactionAge
          /\ animating' = TRUE
          /\ last' = [op |-> "frame", n |-> n]
    /\ UNCHANGED <<phase, storage, clock, mountedAt, intervalSaved, storageDenied, maxParticles,
                   contextAvailable>>

\* ------------------------------------------------------- the simple variant
\* The hook without currency and upgrades.  Its score is kept in
\* gameState.score; its particles have no collector, behaviour or autonomy
\* fields, which are constant here.
InitParticlesSimple(n) ==
    [i \in 1..n |->
        [isTarget |-> (i - 1) < InitialTargets, isCollector |-> FALSE,
         behavior |-> "normal", autonomy |-> 0, burst |-> FALSE]]

\* Target replenishment of the simple variant.
ReplenishSimple(ps, roll, randomIndex) ==
    IF Cardinality(TargetIdx(ps)) < InitialTargets /\ roll /\ ~ps[randomIndex].isTarget
    THEN [ps EXCEPT ![randomIndex].isTarget = TRUE]
    ELSE ps

\* The particle loop of the simple variant from index i on: a target within
\* 30 units of the pointer is collected in place, 10 particles are appended.
RECURSIVE ParticleLoopSimple(_, _, _)
ParticleLoopSimple(st, i, nearPtr) ==
    IF i > Len(st.particles) THEN st
    ELSE IF st.particles[i].isTarget /\ i \in nearPtr
         THEN ParticleLoopSimple(
                  [particles |-> [st.particles EXCEPT ![i].isTarget = FALSE]
                                 \o [j \in 1..BurstCount |-> BurstParticle],
                   score |-> st.score + 1], i + 1, nearPtr)
         ELSE ParticleLoopSimple(st, i + 1, nearPtr)

\* Variant of the cleanup that drops the oldest particles.
CleanUpOldest(ps, n) ==
    IF 2 * Len(ps) > 3 * n THEN SubSeq(ps, Len(ps) - n + 1, Len(ps)) ELSE ps

\* The cleanup at the end of a frame of the simple variant:
\* particles.splice(maxParticles, length - maxParticles) when
\* length > maxParticles * 1.5.
CleanUp(ps, n) ==
    IF 2 * Len(ps) > 3 * n THEN SubSeq(ps, 1, n) ELSE ps

\* A frame of the simple variant.
SimpleFrame ==
    /\ phase = "mounted"
    /\ animating
    /\ contextAvailable
    /\ \E interacting \in BOOLEAN, roll \in BOOLEAN :
       \E randomIndex \in (IF roll THEN RandomIndexChoices(particles) ELSE {1}) :
       \E spawned \in {ReplenishSimple(particles, roll, randomIndex)} :
       \E nearPtr \in SUBSET TargetIdx(spawned) :
       \E r \in {ParticleLoopSimple([particles |-> spawned, score |-> gameState.score],
                                    1, nearPtr)} :
       \E h \in {InteractionStart(Hud, interacting)} :
          /\ r.score <= MaxScore
          /\ particles' = CleanUp(r.particles, maxParticles)
          /\ gameState' = [gameState EXCEPT !.score = r.score]
          /\ showScore' = h.showScore
          /\ showHint' = h.showHint
          /\ interactionAge' = h.interactionAge
          /\ animating' = TRUE
          /\ last' = [op |-> "frame", n |-> r.score - gameState.score,
                      len |-> Len(r.particles)]
    /\ UNCHANGED <<uiTakeover, probe, phase, storage, clock, timerStart, mountedAt, intervalSaved,
                   storageDenied, maxParticles, contextAvailable>>

\* The resize listener of the simple variant.
SimpleResize ==
    /\ phase = "mounted"
    /\ particles' = InitParticlesSimple(maxParticles)
    /\ last' = [op |-> "resize", n |-> 0]
    /\ UNCHANGED <<uiTakeover, probe, phase, gameState, storage, clock, timerStart, mountedAt,
                   intervalSaved, storageDenied, maxParticles,
                   showScore, showHint, interactionAge, animating, contextAvailable>>

\* The window resize listener: initParticles of the first render.  The
\* listener is an anonymous function, so the cleanup does not remove it;
\* after the unmount canvasRef.current is null and initParticles only
\* empties the population.
Resize ==
    /\ phase \in {"mounted", "torndown"}
    /\ particles' = IF phase = "mounted" THEN InitParticles(FirstRenderState.upgrades) ELSE <<>>
    /\ last' = [op |-> "resize", n |-> 0]
    /\ UNCHANGED <<uiTakeover, probe, phase, gameState, storage, clock, timerStart, mountedAt, intervalSaved,
                   storageDenied, maxParticles,
                   showScore, showHint, interactionAge, animating, contextAvailable>>

\* Time passes; a due interval callback runs before time passes further.
Tick ==
    /\ phase = "mounted"
    /\ clock < MaxClock
    /\ clock - timerStart < SaveTicks
    /\ clock' = clock + 1
    /\ UNCHANGED <<uiTakeover, probe, phase, gameState, particles, storage, timerStart, mountedAt, intervalSaved,
                   storageDenied, maxParticles,
                   showScore, showHint, animating, contextAvailable, last>>
    /\ interactionAge' = IF interactionAge > 0 THEN 3 ELSE 0

\* The setInterval callback: saveGameState of the latest render.  quota
\* tells whether setItem throws for lack of space.
PeriodicSave ==
    /\ phase = "mounted"
    /\ clock - timerStart >= SaveTicks
    /\ \E quota \in BOOLEAN :
       \E r \in {SaveGameStateCall(gameState, storage, storageDenied \/ quota)} :
        /\ storage' = r.storage
        /\ phase' = IF r.raised THEN "crashed" ELSE phase
        /\ last' = [op |-> "save", n |-> IF r.logged \/ r.raised THEN -1 ELSE 0]
    /\ timerStart' = clock
    /\ intervalSaved' = TRUE
    /\ UNCHANGED <<uiTakeover, probe, gameState, particles, clock, mountedAt, storageDenied, maxParticles,
                   showScore, showHint, interactionAge, animating, contextAvailable>>

\* Cleanup of the mount effect: saveGameState of the first render.
Teardown ==
    /\ phase = "mounted"
    /\ \E quota \in BOOLEAN :
       \E r \in {SaveGameStateCall(FirstRenderState, storage, storageDenied \/ quota)} :
        /\ storage' = r.storage
        /\ phase' = IF r.raised THEN "crashed" ELSE "torndown"
        /\ last' = [op |-> "teardown", n |-> IF r.logged \/ r.raised THEN -1 ELSE 0]
    /\ UNCHANGED <<uiTakeover, probe, gameState, particles, clock, timerStart, mountedAt, intervalSaved,
                   storageDenied, maxParticles,
                   showScore, showHint, interactionAge, contextAvailable>>
    /\ animating' = FALSE

\* The page goes away without the component being unmounted: no cleanup
\* runs and the instance is discarded.
PageUnload ==
    /\ phase = "mounted"
    /\ phase' = "unloaded"
    /\ gameState' = DefaultGameState(0)
    /\ uiTakeover' = FALSE
    /\ particles' = <<>>
    /\ last' = [op |-> "unload", n |-> 0]
    /\ UNCHANGED <<probe, storage, clock, timerStart, mountedAt, intervalSaved, storageDenied, maxParticles,
                   contextAvailable>>
    /\ showScore' = FALSE
    /\ showHint' = TRUE
    /\ interactionAge' = 0
    /\ animating' = FALSE

\* Time passes over a threshold of the interaction-start detection: more
\* than 1000 ms, then more than 2000 ms, since the first pointer sample.
InteractionAges ==
    /\ phase = "mounted"
    /\ interactionAge \in 1..2
    /\ interactionAge' = interactionAge + 1
    /\ UNCHANGED <<uiTakeover, probe, phase, gameState, particles, storage, clock, timerStart, mountedAt,
                   intervalSaved, storageDenied, maxParticles, showScore, showHint,
                   animating, contextAvailable, last>>

\* The browser loses the drawing context of the canvas, and gives it back.
ContextLost ==
    /\ phase = "mounted"
    /\ contextAvailable
    /\ contextAvailable' = FALSE
    /\ UNCHANGED <<uiTakeover, probe, phase, gameState, particles, storage, clock, timerStart, mountedAt,
                   intervalSaved, storageDenied, maxParticles, showScore, showHint,
                   interactionAge, animating, last>>

ContextRestored ==
    /\ ~contextAvailable
    /\ contextAvailable' = TRUE
    /\ UNCHANGED <<uiTakeover, probe, phase, gameState, particles, storage, clock, timerStart, mountedAt,
                   intervalSaved, storageDenied, maxParticles, showScore, showHint,
                   interactionAge, animating, last>>

Next ==
    \/ Mount
    \/ \E u \in UpgradeIds, c \in 1..MaxCost : PurchaseUpgradeAction(u, c)
    \/ Frame
    \/ Resize
    \/ Teardown

Spec == Init /\ [][Next]_vars

\* The engine with time passing: the save interval, the page going away
\* while the engine is mounted (after which it is mounted afresh), and the
\* drawing context coming and going.
InitTimed == Init /\ storage \in {NoItem, Item(Stringify(EarlierSnapshot))}

NextTimed ==
    \/ Mount
    \/ Frame
    \/ Tick
    \/ PeriodicSave
    \/ PageUnload
    \/ Resize
    \/ Teardown
    \/ ContextLost
    \/ ContextRestored

SpecTimed == InitTimed /\ [][NextTimed]_vars

\* The engine of a first visit (nothing stored, storage working) with the
\* time of the interaction-start detection passing.
InitHud == Init /\ storage = NoItem /\ ~storageDenied

NextHud ==
    \/ Mount
    \/ \E u \in UpgradeIds, c \in 1..MaxCost : PurchaseUpgradeAction(u, c)
    \/ Frame
    \/ InteractionAges
    \/ Resize
    \/ Teardown

SpecHud == InitHud /\ [][NextHud]_vars

\* The shop on a loaded game: the engine has been mounted with a stored
\* snapshot holding some upgrade levels and some currency, and the player
\* clicks shop entries; the shell passes getUpgradeCost of the level it
\* renders as the cost (ParticleCanvas.tsx, renderUpgradeOptions).
LevelChoices ==
    {[DefaultUpgrades EXCEPT
         !.maxParticles = mp, !.autoCollectors = ac, !.autonomyLevel = au,
         !.particleSize = l, !.interactionRadius = l, !.targetSpawnRate = l,
         !.particleSpeed = l] :
       mp \in 1..MaxLevel, ac \in 0..MaxLevel, au \in 0..MaxLevel, l \in 1..MaxLevel}

InitShop ==
    /\ phase = "mounted"
    /\ maxParticles \in {BaseMax, ShellMaxParticles}
    /\ \E up \in LevelChoices, c \in {0, ShopBudget} :
          gameState = [DefaultGameState(-1) EXCEPT
                          !.upgrades = up, !.currency = c, !.score = c,
                          !.highestCurrency = c, !.gameStarted = (c > 0)]
    /\ particles = InitParticles(DefaultUpgrades)
    /\ storage = SaveGameState(gameState)
    /\ storageDenied = FALSE
    /\ clock = 0
    /\ timerStart = 0
    /\ mountedAt = 0
    /\ intervalSaved = FALSE
    /\ showScore = FALSE
    /\ showHint = TRUE
    /\ interactionAge = 0
    /\ animating = TRUE
    /\ contextAvailable = TRUE
    /\ probe = NoProbe
    /\ uiTakeover = FALSE
    /\ last = [op |-> "mount", n |-> 1]

ShopPurchase(upgradeType) ==
    /\ gameState.upgrades[upgradeType] < MaxLevel
    /\ PurchaseUpgradeAction(upgradeType, GetUpgradeCost(upgradeType, gameState.upgrades[upgradeType]))

NextShop == \E u \in UpgradeIds : ShopPurchase(u)

SpecShop == InitShop /\ [][NextShop]_vars

\* The engine in flight with a tracked particle: levels as loaded from a
\* snapshot, the population as rebuilt from them by purchaseUpgrade, the
\* tracked particle (the first or the last of the population) anywhere in
\* the canvas, the canvas-relative pointer sample on or off the axes.
MotionLevels ==
    {[DefaultUpgrades EXCEPT !.autoCollectors = 1, !.autonomyLevel = a,
                             !.interactionRadius = l, !.targetSpawnRate = l] :
        a \in 0..1, l \in 1..2}

InitMotion ==
    /\ phase = "mounted"
    /\ maxParticles = BaseMax
    /\ \E up \in MotionLevels :
          gameState = [DefaultGameState(-1) EXCEPT !.upgrades = up, !.gameStarted = TRUE]
    /\ particles = InitParticles(gameState.upgrades)
    /\ \E idx \in {1, Len(particles)} :
       \E x \in PositionChoices(CanvasWidth), y \in {0, CanvasHeight} :
       \E vx \in VelocityChoices, vy \in VelocityChoices \ {0} :
       \E scaled \in SampleChoices :
          probe = Probe(idx, x, y, vx, vy, scaled, ExternalSample)
    /\ storage = SaveGameState(gameState)
    /\ storageDenied = FALSE
    /\ clock = 0
    /\ timerStart = 0
    /\ mountedAt = 0
    /\ intervalSaved = FALSE
    /\ showScore = FALSE
    /\ showHint = TRUE
    /\ interactionAge = 0
    /\ animating = TRUE
    /\ contextAvailable = TRUE
    /\ uiTakeover = FALSE
    /\ last = [op |-> "purchase", n |-> 0]

NextMotion == MotionFrame

\* The simple variant after its mount effect, for a small and a larger
\* maxParticles option.
InitSimple ==
    /\ phase = "mounted"
    /\ maxParticles \in {BaseMax, SimpleMax}
    /\ gameState = DefaultGameState(0)
    /\ particles = InitParticlesSimple(maxParticles)
    /\ probe = NoProbe
    /\ uiTakeover = FALSE
    /\ storage = NoItem
    /\ storageDenied = FALSE
    /\ clock = 0
    /\ timerStart = 0
    /\ mountedAt = 0
    /\ intervalSaved = FALSE
    /\ showScore = FALSE
    /\ showHint = TRUE
    /\ interactionAge = 0
    /\ animating = TRUE
    /\ contextAvailable = TRUE
    /\ last = [op |-> "mount", n |-> 0]

NextSimple == SimpleFrame \/ SimpleResize

SpecSimple == InitSimple /\ [][NextSimple]_vars

\* The engine in flight just below the takeover threshold: one collector was
\* bought earlier, currency is at its high-water mark, and one particle is
\* tracked.
InitTakeover ==
    /\ phase = "mounted"
    /\ maxParticles = BaseMax
    /\ \E c \in {TakeoverCurrency - 1, TakeoverCurrency} :
          gameState = [DefaultGameState(-1) EXCEPT
                          !.upgrades.autoCollectors = 1, !.gameStarted = TRUE,
                          !.currency = c, !.highestCurrency = c,
                          !.score = c + GetUpgradeCost("autoCollectors", 0)]
    /\ particles = InitParticles(gameState.upgrades)
    /\ probe = Probe(1, Unit, 0, 0, 3 * Unit, Origin, ExternalSample)
    /\ storage = SaveGameState(gameState)
    /\ storageDenied = FALSE
    /\ clock = 0
    /\ timerStart = 0
    /\ mountedAt = 0
    /\ intervalSaved = FALSE
    /\ showScore = FALSE
    /\ showHint = TRUE
    /\ interactionAge = 0
    /\ animating = TRUE
    /\ contextAvailable = TRUE
    /\ uiTakeover = FALSE
    /\ last = [op |-> "purchase", n |-> 0]

NextTakeover ==
    \/ MotionFrame
    \/ \E u \in UpgradeIds : ShopPurchase(u)

SpecTakeover == InitTakeover /\ [][NextTakeover]_vars

SpecMotion == InitMotion /\ [][NextMotion]_vars

\* Two clicks on the button of one upgrade handled from the same render of
\* the shop: both onClick closures carry the cost computed for the level of
\* that render, the two updaters are applied in order, and both calls run
\* that render's initParticles.
ShopPurchaseTwice(upgradeType) ==
    /\ phase = "mounted"
    /\ gameState.upgrades[upgradeType] + 1 < MaxLevel
    /\ LET cost == GetUpgradeCost(upgradeType, gameState.upgrades[upgradeType])
           first == PurchaseUpdater(gameState, upgradeType, cost)
           second == PurchaseUpdater(first, upgradeType, cost)
       IN  /\ gameState' = second
           /\ uiTakeover' = UiTakeoverEffect(uiTakeover, second)
           /\ particles' = InitParticles(gameState.upgrades)
           /\ timerStart' = IF second # gameState THEN clock ELSE timerStart
           /\ last' = [op |-> "purchase",
                       n |-> second.upgrades[upgradeType] - gameState.upgrades[upgradeType]]
    /\ UNCHANGED <<probe, phase, storage, clock, mountedAt, intervalSaved, storageDenied, maxParticles,
                   showScore, showHint, interactionAge, animating, contextAvailable>>

NextShopQueue ==
    \/ \E u \in UpgradeIds : ShopPurchase(u)
    \/ \E u \in UpgradeIds : ShopPurchaseTwice(u)

SpecShopQueue == InitShop /\ [][NextShopQueue]_vars

\* ------------------------------------------------------------------ claims
\* Costs a caller may pass to purchaseUpgrade in the statements below.
ClaimCosts == 0..(MaxScore + 1)

\* C1: a collection event (collectTarget on a particle that is a target)
\* raises score by exactly 1 and currency by exactly 1, clears the target
\* flag of that particle, and sets highestCurrency to the maximum of its old
\* value and the new currency.
C1_CollectionEffect ==
    \A i \in TargetIdx(particles) :
        LET r == CollectTarget(Now, i) IN
        /\ r.gameState.score = gameState.score + 1
        /\ r.gameState.currency = gameState.currency + 1
        /\ ~r.particles[i].isTarget
        /\ r.gameState.highestCurrency
             = (IF gameState.highestCurrency >= gameState.currency + 1
                THEN gameState.highestCurrency ELSE gameState.currency + 1)

\* A frame has collected a target after currency had been spent (the
\* high-water mark was above the currency), and targets remain.
C1_Witness ==
    /\ last.op = "frame" /\ last.n >= 1
    /\ gameState.currency < gameState.score
    /\ TargetIdx(particles) # {}

\* C2: collectTarget on a particle whose target flag is already false
\* changes nothing: score, currency, highestCurrency and the population
\* (no burst particles) stay as they are; collecting the same index twice
\* is the same as collecting it once.
C2_CollectIdempotent ==
    /\ \A i \in 1..Len(particles) :
          ~particles[i].isTarget => CollectTarget(Now, i) = Now
    /\ \A i \in TargetIdx(particles) :
          CollectTarget(CollectTarget(Now, i), i) = CollectTarget(Now, i)

\* A frame has collected one of the initial targets, whose flag is now false.
C2_Witness ==
    /\ last.op = "frame" /\ last.n >= 1
    /\ \E i \in 1..InitialTargets : ~particles[i].isTarget /\ ~particles[i].burst

\* C3: purchaseUpgrade(upgradeId, cost) with currency < cost leaves the
\* GameState unchanged.
C3_RejectedPurchase ==
    phase = "mounted" =>
        \A u \in UpgradeIds, c \in ClaimCosts :
            gameState.currency < c => PurchaseUpgrade(Now, u, c).gameState = gameState

\* A purchase has been rejected.
C3_Witness == last.op = "purchase" /\ last.n = 0 /\ gameState.score > 0

\* C4: purchaseUpgrade(upgradeId, cost) with currency >= cost subtracts cost
\* from currency, raises the level of upgradeId by exactly 1 and leaves every
\* other level, score and highestCurrency unchanged.
C4_AcceptedPurchase ==
    phase = "mounted" =>
        \A u \in UpgradeIds, c \in ClaimCosts :
            gameState.currency >= c =>
                LET g == PurchaseUpgrade(Now, u, c).gameState IN
                /\ g.currency = gameState.currency - c
                /\ g.upgrades[u] = gameState.upgrades[u] + 1
                /\ \A v \in UpgradeIds \ {u} : g.upgrades[v] = gameState.upgrades[v]
                /\ g.score = gameState.score
                /\ g.highestCurrency = gameState.highestCurrency

\* A purchase that took the whole currency has been accepted.
C4_Witness == last.op = "purchase" /\ last.n = 1 /\ gameState.currency = 0

\* C5: after an accepted purchase the population reflects the post-purchase
\* levels: its size is floor(baseMax * (1 + maxParticles level * 0.2)) and
\* its number of collectors is the autoCollectors level.
C5_PopulationReflectsPurchase ==
    (last.op = "purchase" /\ last.n = 1) =>
        /\ Len(particles) = ActualMaxParticles(gameState.upgrades)
        /\ Cardinality(CollectorIdx(particles)) = gameState.upgrades.autoCollectors

\* C6: at the end of every frame the particle count is at most 1.5 times
\* floor(baseMax * (1 + maxParticles level * 0.2)).
C6_PopulationBounded ==
    last.op = "frame" => 2 * Len(particles) <= 3 * ActualMaxParticles(gameState.upgrades)

\* C7: saveGameState followed by loadGameState with no state change in
\* between yields a GameState with the currency, score and upgrades of the
\* saved state.
C7_SaveLoadRoundTrip ==
    LET g == LoadGameState(DefaultGameState(clock), SaveGameState(gameState)) IN
    /\ g.currency = gameState.currency
    /\ g.score = gameState.score
    /\ g.upgrades = gameState.upgrades

\* A snapshot written by the save interval after a collection has been
\* loaded by the next instance.
C7_Witness ==
    /\ last.op = "mount" /\ last.n = 1
    /\ storage = SaveGameState(gameState)
    /\ gameState.score >= 1
    /\ gameState.lastUpdate >= 0

\* C8: the snapshot left in storage by the teardown (its write succeeding)
\* has the currency, score and upgrades the GameState has at the teardown.
C8_TeardownSavesState ==
    (last.op = "teardown" /\ last.n = 0) =>
        /\ Loaded(storage)
        /\ Parse(storage.text).currency = gameState.currency
        /\ Parse(storage.text).score = gameState.score
        /\ Parse(storage.text).upgrades = gameState.upgrades

\* C9: once the engine has been mounted for a whole save interval, the
\* periodic save has fired, or is due and fires before time passes further.
C9_PeriodicSaveFires ==
    (phase = "mounted" /\ (clock - mountedAt) * TickMs >= SaveIntervalMs) =>
        \/ intervalSaved
        \/ (clock - timerStart) * TickMs >= SaveIntervalMs

\* C10: after startup the GameState is the parsed snapshot, every field
\* taken from it, when a snapshot is present and parses, and the defaults
\* when none is present.
C10_LoadReplacesWholesale ==
    last.op = "mount" =>
        /\ Loaded(storage) =>
              /\ \A f \in {"currency", "score", "level", "lastUpdate", "gameStarted", "highestCurrency"} :
                    gameState[f] = Member(storage.text, f)
              /\ \A u \in UpgradeIds : gameState.upgrades[u] = Member(Member(storage.text, "upgrades"), u)
              /\ DOMAIN gameState = {storage.text[k][1] : k \in 1..Len(storage.text)}
        /\ ~storage.present => gameState = DefaultGameState(mountedAt)

\* The snapshot of the earlier session has been loaded at startup.
C10_Witness ==
    /\ last.op = "mount" /\ last.n = 1
    /\ gameState = EarlierSnapshot
    /\ gameState.lastUpdate # mountedAt

\* C11: a failing storage write, a failing storage read or an unparseable
\* stored snapshot never raises out of saveGameState or loadGameState: the
\* call returns, the GameState is left as it was (the defaults at startup),
\* a failed write leaves the stored item as it was, and the engine stays
\* mounted, so frames keep running.
C11_StorageFailuresContained ==
    /\ phase # "crashed"
    /\ LET w == SaveGameStateCall(gameState, storage, TRUE) IN
           ~w.raised /\ w.storage = storage
    /\ \A item \in {storage, Item(CorruptText)}, readFails \in BOOLEAN :
           LET r == LoadGameStateCall(gameState, item, readFails) IN
           /\ ~r.raised
           /\ (readFails \/ ~Loaded(item)) => r.gameState = gameState
    /\ (last.op = "mount" /\ last.n = -1) =>
           phase = "mounted" /\ animating /\ gameState = DefaultGameState(mountedAt)
    /\ (last.op = "save" /\ last.n = -1) => phase = "mounted"

\* The startup load met an unparseable snapshot, the engine ran, and the
\* write of the teardown failed as well, leaving the stored text in place.
C11_Witness ==
    /\ last.op = "teardown" /\ last.n = -1
    /\ storage = Item(CorruptText)
    /\ gameState.score > 0

\* C12 (as the code has it): a fresh engine with baseMax = 60 and the default
\* upgrade levels has exactly 72 = floor(60 * (1 + 1 * 0.2)) particles, of
\* which exactly indices 0, 1 and 2 are targets and none is a collector.
C12_FreshPopulation72 ==
    (maxParticles = ShellMaxParticles /\ gameState.upgrades = DefaultUpgrades) =>
        LET ps == InitParticles(gameState.upgrades) IN
        /\ Len(ps) = 72
        /\ TargetIdx(ps) = 1..3
        /\ CollectorIdx(ps) = {}

\* C12 (as stated): a fresh engine with baseMax = 60 and the default upgrade
\* levels has exactly 60 particles, indices 0, 1 and 2 targets, 0 collectors.
C12_FreshPopulation60 ==
    (maxParticles = ShellMaxParticles /\ gameState.upgrades = DefaultUpgrades) =>
        LET ps == InitParticles(gameState.upgrades) IN
        /\ Len(ps) = 60
        /\ TargetIdx(ps) = 1..3
        /\ CollectorIdx(ps) = {}

\* The engine with baseMax = 60, nothing collected and nothing bought, whose
\* population initParticles has just rebuilt.
C12_Witness ==
    /\ maxParticles = ShellMaxParticles
    /\ gameState.upgrades = DefaultUpgrades
    /\ gameState.score = 0
    /\ last.op = "purchase" /\ last.n = 0
    /\ Len(particles) = 72

\* C13: for every upgrade state, initParticles builds exactly
\* floor(baseMax * (1 + maxParticles level * 0.2)) particles, exactly those at
\* indices below the autoCollectors level are collectors, exactly those at
\* indices 0, 1, 2 are targets; the population it leaves holds nothing of
\* the previous one.
C13_InitParticlesShape ==
    /\ LET ps == InitParticles(gameState.upgrades) IN
       /\ Len(ps) = (maxParticles * (5 + gameState.upgrades.maxParticles)) \div 5
       /\ CollectorIdx(ps) = {i \in 1..Len(ps) : i - 1 < gameState.upgrades.autoCollectors}
       /\ TargetIdx(ps) = {i \in 1..Len(ps) : i - 1 \in {0, 1, 2}}
    /\ (last.op = "purchase" /\ last.n = 0) => particles = InitParticles(gameState.upgrades)

\* initParticles has replaced the startup population by a larger one with
\* collectors.
C13_Witness ==
    /\ last.op = "purchase" /\ last.n = 0
    /\ Len(particles) > Len(InitParticles(DefaultUpgrades))
    /\ Cardinality(CollectorIdx(particles)) = 2

\* C15: the cost of an upgrade is strictly increasing in its level, for each
\* of the seven upgrade ids and every level from 0 up to the current one.
C15_CostStrictlyIncreasing ==
    \A u \in UpgradeIds : \A l \in 0..gameState.upgrades[u] :
        GetUpgradeCost(u, l + 1) > GetUpgradeCost(u, l)

\* The shop has sold an upgrade at the cost of its level, and every upgrade
\* stands at the highest level of the model.
C15_Witness ==
    /\ last.op = "purchase" /\ last.n = 1
    /\ \A u \in UpgradeIds : gameState.upgrades[u] = MaxLevel

\* C14: in a frame where the pointer is within 30 units of exactly one target
\* and no collector is within 30 units of a target, exactly one collection
\* fires: score and currency go up by 1 and exactly 10 burst particles are
\* appended to the population.  The frames taken are those without a
\* promotion and those with each promotion the replenishment can make.
C14_PointerCollectsOne ==
    phase = "mounted" =>
        \A interacting \in BOOLEAN, roll \in BOOLEAN :
        \A randomIndex \in (IF roll THEN {i \in RandomIndexChoices(particles) :
                                             Replenish(particles, TRUE, i) # particles}
                             ELSE {1}) :
            LET spawned == Replenish(particles, roll, randomIndex)
                others == (1..Len(particles)) \ TargetIdx(spawned)
            IN  (\A c \in CollectorIdx(particles) : ~spawned[c].isTarget) =>
                \A t \in TargetIdx(spawned), extra \in {{}, others} :
                    LET r == UpdateParticles(Now, interacting, roll, randomIndex, {t} \cup extra,
                                             [c \in CollectorIdx(particles) |-> extra])
                    IN  /\ r.gameState.score = gameState.score + 1
                        /\ r.gameState.currency = gameState.currency + 1
                        /\ Len(r.particles) = Len(particles) + BurstCount
                        /\ \A j \in 1..BurstCount : r.particles[Len(particles) + j].burst
                        /\ ~r.particles[t].isTarget
                        /\ TargetIdx(r.particles) = TargetIdx(spawned) \ {t}

\* The first collection of a fresh game: one frame took score and currency
\* from 0 to 1 and appended 10 burst particles to the startup population.
C14_Witness ==
    /\ last.op = "frame" /\ last.n = 1
    /\ gameState.score = 1 /\ gameState.currency = 1
    /\ Len(particles) = Len(InitParticles(DefaultUpgrades)) + BurstCount
    /\ Cardinality(BurstIdx(particles)) = BurstCount

\* C16: within one engine instance, under any sequence of collections and
\* purchases with a non-negative cost, score never decreases, currency is
\* never negative, and currency changes only by +1 for each collection and
\* by -cost on an accepted purchase.
C16_CurrencyAndScore ==
    /\ [](phase = "mounted" =>
            /\ gameState.currency >= 0
            /\ \A u \in UpgradeIds, c \in ClaimCosts :
                  LET g == PurchaseUpgrade(Now, u, c).gameState IN
                  /\ g.score = gameState.score
                  /\ g.currency = (IF gameState.currency >= c
                                   THEN gameState.currency - c ELSE gameState.currency)
                  /\ g.currency >= 0
            /\ \A i \in 1..Len(particles) :
                  LET g == CollectTarget(Now, i).gameState IN
                  /\ g.score >= gameState.score
                  /\ g.currency - gameState.currency = g.score - gameState.score
                  /\ g.currency - gameState.currency \in {0, 1})
    /\ [][(phase = "mounted" /\ phase' = "mounted") =>
            /\ gameState'.score >= gameState.score
            /\ \/ /\ last'.op = "frame"
                  /\ gameState'.score = gameState.score + last'.n
                  /\ gameState'.currency = gameState.currency + last'.n
               \/ /\ last'.op = "purchase" /\ last'.n = 1
                  /\ gameState'.score = gameState.score
                  /\ \E c \in 0..MaxCost :
                        gameState.currency >= c /\ gameState'.currency = gameState.currency - c
               \/ /\ gameState'.score = gameState.score
                  /\ gameState'.currency = gameState.currency]_vars

\* Every collection the model allows has been made and one unit of currency
\* has been spent.
C16_Witness ==
    /\ last.op = "purchase" /\ last.n = 1
    /\ gameState.score = MaxScore
    /\ gameState.currency = MaxScore - 1
    /\ gameState.highestCurrency = MaxScore

\* C17: within one engine instance showScore, once true, never becomes false
\* again and showHint, once false, never becomes true again, over any
\* sequence of frames, pointer samples, purchases and resizes.
C17_HudLatches ==
    [][~(phase # "mounted" /\ phase' = "mounted") =>
          /\ showScore => showScore'
          /\ ~showHint => showHint' = FALSE]_vars

\* The score is shown and the hint hidden, and a collection, a purchase and
\* a resize have followed.
C17_Witness ==
    /\ showScore /\ ~showHint
    /\ last.op = "resize"
    /\ gameState.score > gameState.currency

\* C18: a frame that finds no drawing context is a no-op frame that is
\* retried: while the engine is mounted a next frame is scheduled, so frames
\* resume once the context is back.
C18_SkippedFrameRetried ==
    (phase = "mounted" /\ last.op = "skip") => animating

\* C19: after the teardown no frame, resize or pointer callback of the
\* instance runs or changes the population.
C19_TeardownDeregistersAll ==
    [][(phase = "torndown" /\ phase' = "torndown") =>
          particles' = particles /\ last' = last]_vars

\* C20: a promotion is attempted only when fewer than 3 particles are
\* targets, and whenever the spawn roll succeeds and a particle that is
\* neither a collector nor a target exists, exactly one such particle becomes
\* a target, whatever index Math.random() draws.
C20_ReplenishmentPromotes ==
    phase = "mounted" =>
        LET eligible == {j \in 1..Len(particles) :
                            ~particles[j].isTarget /\ ~particles[j].isCollector}
        IN  \A randomIndex \in 1..Len(particles) :
                LET ps == Replenish(particles, TRUE, randomIndex) IN
                /\ Cardinality(TargetIdx(particles)) >= InitialTargets => ps = particles
                /\ (Cardinality(TargetIdx(particles)) < InitialTargets /\ eligible # {}) =>
                      \E j \in eligible : ps = [particles EXCEPT ![j].isTarget = TRUE]

\* C21: a particle appended by a collection has autonomy 0, is not a
\* collector and is not a target in any later state.
C21_BurstsNeverInteractive ==
    \A i \in BurstIdx(particles) :
        /\ particles[i].autonomy = 0
        /\ ~particles[i].isCollector
        /\ ~particles[i].isTarget

\* C22: purchaseUpgrade with currency < cost leaves the particle population
\* as it is.
C22_RejectedPurchaseKeepsPopulation ==
    phase = "mounted" =>
        \A u \in UpgradeIds, c \in ClaimCosts :
            gameState.currency < c => PurchaseUpgrade(Now, u, c).particles = particles

\* C23: after a canvas resize the population is the one initParticles builds
\* from the upgrade levels of the GameState at the resize: its size is
\* floor(baseMax * (1 + maxParticles level * 0.2)), its collector count the
\* autoCollectors level, and no particle of the old population is kept.
C23_ResizeUsesCurrentUpgrades ==
    (phase = "mounted" /\ last.op = "resize") =>
        /\ Len(particles) = ActualMaxParticles(gameState.upgrades)
        /\ Cardinality(CollectorIdx(particles)) = gameState.upgrades.autoCollectors
        /\ BurstIdx(particles) = {}

\* C26: in a frame where one target is within 30 units of both a collector
\* and the pointer (no other target in range of anything, no other collector
\* being a target itself) exactly one collection fires: score and currency
\* go up by 1, 10 burst particles are appended.  And a collector whose range
\* holds any set of targets, the pointer being away, collects exactly the
\* first of them in index order and no other.
C26_CollectedOnce ==
    phase = "mounted" =>
        \A c \in CollectorIdx(particles) :
            (\A d \in CollectorIdx(particles) \ {c} : ~particles[d].isTarget) =>
            /\ \A t \in TargetIdx(particles) :
                  (particles[c].isTarget => t = c) =>
                  LET r == UpdateParticles(Now, TRUE, FALSE, 1, {t},
                               [d \in CollectorIdx(particles) |-> IF d = c THEN {t} ELSE {}])
                  IN  /\ r.gameState.score = gameState.score + 1
                      /\ r.gameState.currency = gameState.currency + 1
                      /\ Len(r.particles) = Len(particles) + BurstCount
                      /\ TargetIdx(r.particles) = TargetIdx(particles) \ {t}
            /\ \A near \in SUBSET TargetIdx(particles) :
                  LET inRange == near \cup (IF particles[c].isTarget THEN {c} ELSE {})
                      r == UpdateParticles(Now, FALSE, FALSE, 1, {},
                               [d \in CollectorIdx(particles) |-> IF d = c THEN near ELSE {}])
                      collected == TargetIdx(particles) \ TargetIdx(r.particles)
                  IN  /\ Cardinality(collected) <= 1
                      /\ inRange = {} => collected = {}
                      /\ inRange # {} =>
                            collected = {CHOOSE t \in inRange : \A o \in inRange : t <= o}
                      /\ r.gameState.score = gameState.score + Cardinality(collected)

\* A frame in a population with a collector has collected exactly one
\* target, and targets remain.
C26_Witness ==
    /\ last.op = "frame" /\ last.n = 1
    /\ CollectorIdx(particles) # {}
    /\ Cardinality(TargetIdx(particles)) = 2
    /\ Cardinality(BurstIdx(particles)) = BurstCount

\* C28: the behaviour of the particle at index i is 'collector' if
\* i < autoCollectors, else 'seeker' if i is divisible by 10 and
\* autonomyLevel > 2, else 'avoider' if i is divisible by 15 and
\* autonomyLevel > 3, else 'normal'; a population rebuilt from the same
\* levels has the same behaviour and role flags at every index.
C28_BehaviorByIndex ==
    LET up == gameState.upgrades
        ps == InitParticles(up)
    IN  /\ \A i \in 1..Len(ps) :
              ps[i].behavior =
                  (IF i - 1 < up.autoCollectors THEN "collector"
                   ELSE IF (i - 1) % 10 = 0 /\ up.autonomyLevel > 2 THEN "seeker"
                   ELSE IF (i - 1) % 15 = 0 /\ up.autonomyLevel > 3 THEN "avoider"
                   ELSE "normal")
        /\ (last.op = "purchase" /\ last.n = 0) =>
              /\ Len(particles) = Len(ps)
              /\ \A i \in 1..Len(ps) :
                    /\ particles[i].behavior = ps[i].behavior
                    /\ particles[i].isTarget = ps[i].isTarget
                    /\ particles[i].isCollector = ps[i].isCollector

\* A population rebuilt at the highest autonomy level holds collectors,
\* seekers (index 30 among them), avoiders and normal particles.
C28_Witness ==
    /\ last.op = "purchase" /\ last.n = 0
    /\ Len(particles) > 45
    /\ particles[1].behavior = "collector"
    /\ particles[31].behavior = "seeker"
    /\ particles[46].behavior = "avoider"
    /\ particles[2].behavior = "normal"

\* C30: every purchase made through the shop button is applied with the cost
\* of the level the upgrade has when the purchase is applied: each level
\* gained by one upgrade, from level L, lowers currency by cost(id, L), also
\* for the second of two requests issued from the same render.
C30_CostOfAppliedLevel ==
    [][\A u \in UpgradeIds :
          LET level == gameState.upgrades[u]
              gained == gameState'.upgrades[u] - level
          IN  /\ gained = 1 =>
                    gameState.currency - gameState'.currency = GetUpgradeCost(u, level)
              /\ gained = 2 =>
                    gameState.currency - gameState'.currency =
                        GetUpgradeCost(u, level) + GetUpgradeCost(u, level + 1)]_vars

\* C24: the repulsion radius and the spawn probability a frame uses are
\* interactionRadius * (1 + L * 0.1) and targetSpawnRate * (1 + S * 0.2)
\* for the levels L and S of the GameState at that frame.
C24_FrameUsesCurrentLevels ==
    probe.frame = 1 =>
        /\ probe.radius = ActualInteractionRadius(gameState.upgrades)
        /\ probe.spawnRate = AdjustedSpawnRate(gameState.upgrades)

\* C25: in every frame every collector steers toward the nearest target, or
\* wanders when there is none, whatever its autonomy and with no delay
\* between direction changes.
C25_CollectorSteersEveryFrame ==
    (probe.frame = 1 /\ probe.idx <= Len(particles) /\ particles[probe.idx].isCollector) =>
        probe.steer \in {"target", "wander"}

\* C27: at the end of a frame the tracked particle lies inside the canvas;
\* if integration took it past an edge it lies on that edge and its
\* velocity on that axis is -0.7 times the velocity after friction;
\* otherwise it is where integration put it (no wrapping).
C27_ContainedInCanvas ==
    probe.frame = 1 =>
        LET ux == probe.before.x + (probe.before.vx + probe.dvx) * probe.nd
            uy == probe.before.y + (probe.before.vy + probe.dvy) * probe.nd
            fx == Friction(probe.before.vx + probe.dvx)
            fy == Friction(probe.before.vy + probe.dvy)
        IN  /\ 0 <= probe.x /\ probe.x <= CanvasWidth
            /\ 0 <= probe.y /\ probe.y <= CanvasHeight
            /\ ux < 0 => probe.x = 0 /\ 10 * probe.vx = -7 * fx
            /\ ux > CanvasWidth => probe.x = CanvasWidth /\ 10 * probe.vx = -7 * fx
            /\ (0 <= ux /\ ux <= CanvasWidth) => probe.x = ux /\ probe.vx = fx
            /\ uy < 0 => probe.y = 0 /\ 10 * probe.vy = -7 * fy
            /\ uy > CanvasHeight => probe.y = CanvasHeight /\ 10 * probe.vy = -7 * fy
            /\ (0 <= uy /\ uy <= CanvasHeight) => probe.y = uy /\ probe.vy = fy

\* A particle moving right and up left the canvas through the right edge
\* and the top edge in one frame and was put on both.
C27_Witness ==
    /\ probe.frame = 1
    /\ probe.before.x + (probe.before.vx + probe.dvx) * probe.nd > CanvasWidth
    /\ probe.before.y + (probe.before.vy + probe.dvy) * probe.nd < 0
    /\ probe.x = CanvasWidth /\ probe.vx < 0
    /\ probe.y = 0 /\ probe.vy > 0

\* C29: the pointer a frame uses is the canvas-relative sample whenever one
\* of its coordinates is not 0, and the sample of the shell only when the
\* canvas-relative sample is (0, 0).
C29_LocalSamplePreferred ==
    probe.frame = 1 =>
        probe.mousePos = (IF probe.scaled.x # 0 \/ probe.scaled.y # 0
                          THEN probe.scaled ELSE probe.external)

\* C32: in every reachable state at most 3 particles are targets.
C32_AtMostThreeTargets ==
    Cardinality(TargetIdx(particles)) <= InitialTargets

\* A collection left 2 targets and a later replenishment brought the number
\* back to 3.
C32_Witness ==
    /\ last.op = "frame" /\ last.n = 0
    /\ BurstIdx(particles) # {}
    /\ Cardinality(TargetIdx(particles)) = InitialTargets

\* C33: in every reachable state no particle is both a collector and a
\* target.
C33_CollectorNeverTarget ==
    \A i \in 1..Len(particles) : ~(particles[i].isCollector /\ particles[i].isTarget)

\* C34: currency <= highestCurrency <= score in every reachable state, and
\* neither a collection nor a purchase with a non-negative cost lowers
\* highestCurrency.
C34_HighWaterMark ==
    /\ gameState.currency <= gameState.highestCurrency
    /\ gameState.highestCurrency <= gameState.score
    /\ \A i \in TargetIdx(particles) :
          LET g == CollectTarget(Now, i).gameState
          IN  /\ g.highestCurrency >= gameState.highestCurrency
              /\ g.highestCurrency >= g.currency
    /\ \A u \in UpgradeIds, c \in ClaimCosts :
          PurchaseUpdater(gameState, u, c).highestCurrency = gameState.highestCurrency

\* A collection after a purchase: currency is back at its high-water mark,
\* which is below the score.
C34_Witness ==
    /\ last.op = "frame" /\ last.n = 1
    /\ gameState.currency = gameState.highestCurrency
    /\ gameState.highestCurrency < gameState.score

\* C35: a frame that runs before any non-zero pointer sample was seen, in a
\* population without collectors, collects nothing.
C35_NoCollectionBeforePointer ==
    (last.op = "frame" /\ interactionAge = 0 /\ CollectorIdx(particles) = {}) =>
        last.n = 0

\* C36: showScore is false until the interaction timer was started and more
\* than 1000 ms have passed; showHint is false only in states where
\* showScore is true and more than 2000 ms have passed.
C36_HudOrder ==
    /\ showScore => interactionAge >= 2
    /\ ~showHint => (showScore /\ interactionAge = 3)

\* The hint is hidden and the score is shown.
C36_Witness ==
    /\ last.op = "frame"
    /\ ~showHint /\ showScore /\ interactionAge = 3

\* C37: uiTakeover is false while currency has never been above 100, true
\* once a state with currency above 100 was rendered, and stays true when
\* purchases take currency back to 100 or below (highestCurrency is the
\* highest currency reached).
C37_TakeoverLatch ==
    /\ uiTakeover <=> gameState.highestCurrency > TakeoverCurrency
    /\ gameState.currency > TakeoverCurrency => uiTakeover

\* A purchase took currency from above 100 to at most 100 and the flag is
\* still set.
C37_Witness ==
    /\ last.op = "purchase" /\ last.n = 1
    /\ gameState.currency <= TakeoverCurrency
    /\ uiTakeover

\* C31: in the simple variant, at the end of every frame the particle count
\* is at most 1.5 * maxParticles; the cleanup cuts a population above that
\* to exactly maxParticles and removes only particles at indices
\* >= maxParticles (appended ones), never one of the original particles.
C31_SimpleTrim ==
    /\ \A i \in 1..Len(particles) : particles[i].burst <=> i > maxParticles
    /\ Len(particles) >= maxParticles
    /\ last.op = "frame" =>
          /\ 2 * Len(particles) <= 3 * maxParticles
          /\ 2 * last.len > 3 * maxParticles => Len(particles) = maxParticles
          /\ 2 * last.len <= 3 * maxParticles => Len(particles) = last.len

\* With maxParticles = 24 a frame took the population above 36 and the
\* cleanup cut it back to 24.
C31_Witness ==
    /\ last.op = "frame"
    /\ maxParticles = SimpleMax
    /\ 2 * last.len > 3 * maxParticles
    /\ Len(particles) = maxParticles

====
